---- MODULE Spec2Model ----
(***************************************************************************)
(* Model of the anime-game-data snapshot store (src/src/lib.rs): the       *)
(* revision-gated update, the nine fetch-and-derive steps, installation of *)
(* the new Database and the JSON cache file on disk.                       *)
(*                                                                         *)
(* Option<T> and Result<T> are sequences: <<>> is None / Err, <<x>> is     *)
(* Some(x) / Ok(x).  HashMap<u32, V> is a function on the set of its keys. *)
(***************************************************************************)
EXTENDS Integers, Sequences, FiniteSets, TLC

VARIABLES
    db,          \* AnimeGameData.db : Option<Database>
    cache_path,  \* AnimeGameData.cache_path : Option<PathBuf>
    file,        \* contents of the file at the cache path
    pc,          \* "idle", or "fetch" while update_impl is suspended at an await
    upd,         \* locals of the suspended update_impl (None when idle)
    last,        \* the last completed call: its arguments, result and effects
    saved        \* the Database whose document the cache file holds (None if the
                 \* file does not hold a complete document written by try_save_db)

vars == <<db, cache_path, file, pc, upd, last, saved>>

None == <<>>
Some(x) == <<x>>

----------------------------------------------------------------------------
(* Bounds *)

\* Largest finite magnitude of the f64 model; a product above it is infinite.
F64Max == 1000

\* Ids queried through get_*.
MaxId == 3

Ids == 1..MaxId

----------------------------------------------------------------------------
(* types.rs *)

\* impl FromStr for Property: the fixed string-to-enum table.
PropertyTable ==
    [ FIGHT_PROP_HP                |-> "Hp",
      FIGHT_PROP_HP_PERCENT        |-> "HpPercent",
      FIGHT_PROP_ATTACK            |-> "Attack",
      FIGHT_PROP_ATTACK_PERCENT    |-> "AttackPercent",
      FIGHT_PROP_DEFENSE           |-> "Defense",
      FIGHT_PROP_DEFENSE_PERCENT   |-> "DefensePercent",
      FIGHT_PROP_ELEMENT_MASTERY   |-> "ElementalMastery",
      FIGHT_PROP_CHARGE_EFFICIENCY |-> "EnergyRecharge",
      FIGHT_PROP_HEAL_ADD          |-> "Healing",
      FIGHT_PROP_CRITICAL          |-> "CritRate",
      FIGHT_PROP_CRITICAL_HURT     |-> "CritDamage",
      FIGHT_PROP_PHYSICAL_ADD_HURT |-> "PhysicalDamage",
      FIGHT_PROP_WIND_ADD_HURT     |-> "AnemoDamage",
      FIGHT_PROP_ROCK_ADD_HURT     |-> "GeoDamage",
      FIGHT_PROP_ELEC_ADD_HURT     |-> "ElectroDamage",
      FIGHT_PROP_WATER_ADD_HURT    |-> "HydroDamage",
      FIGHT_PROP_FIRE_ADD_HURT     |-> "PyroDamage",
      FIGHT_PROP_ICE_ADD_HURT      |-> "CryoDamage",
      FIGHT_PROP_GRASS_ADD_HURT    |-> "DendroDamage" ]

\* s.parse::<Property>().ok()
from_str(s) ==
    IF s \in DOMAIN PropertyTable THEN Some(PropertyTable[s]) ELSE None

is_percentage(p) ==
    p \in { "HpPercent", "AttackPercent", "DefensePercent", "EnergyRecharge",
            "Healing", "CritRate", "CritDamage", "PhysicalDamage",
            "AnemoDamage", "GeoDamage", "ElectroDamage", "HydroDamage",
            "PyroDamage", "CryoDamage", "DendroDamage" }

from_game_data_name(name) ==
    CASE name = "EQUIP_BRACER"   -> Some("Flower")
      [] name = "EQUIP_NECKLACE" -> Some("Plume")
      [] name = "EQUIP_SHOES"    -> Some("Sands")
      [] name = "EQUIP_RING"     -> Some("Goblet")
      [] name = "EQUIP_DRESS"    -> Some("Circlet")
      [] OTHER                   -> None

----------------------------------------------------------------------------
(* f64 arithmetic of fetch_affix_map.  A finite f64 is an integer of        *)
(* magnitude at most F64Max; the two infinities are the next integers out.  *)

PosInf == F64Max + 1
NegInf == 0 - (F64Max + 1)

\* Variant of Mul100: the value is not scaled.
Mul100Unscaled(v) == v

\* entry.prop_value * 100.
Mul100(v) ==
    IF v * 100 > F64Max THEN PosInf
    ELSE IF v * 100 < 0 - F64Max THEN NegInf
    ELSE v * 100

----------------------------------------------------------------------------
(* The remote source (trait GameDataSource) *)

PathTextMap     == "TextMap/TextMapEN.json"
PathSkillDepot  == "ExcelBinOutput/AvatarSkillDepotExcelConfigData.json"
PathDisplayItem == "ExcelBinOutput/DisplayItemExcelConfigData.json"
PathReliquary   == "ExcelBinOutput/ReliquaryExcelConfigData.json"
PathMainProp    == "ExcelBinOutput/ReliquaryMainPropExcelConfigData.json"
PathAffix       == "ExcelBinOutput/ReliquaryAffixExcelConfigData.json"
PathWeapon      == "ExcelBinOutput/WeaponExcelConfigData.json"
PathMaterial    == "ExcelBinOutput/MaterialExcelConfigData.json"
PathAvatar      == "ExcelBinOutput/AvatarExcelConfigData.json"

\* The order in which update_impl awaits its nine fetches.
FetchOrder ==
    << PathTextMap, PathSkillDepot, PathDisplayItem, PathReliquary,
       PathMainProp, PathAffix, PathWeapon, PathMaterial, PathAvatar >>

Paths == { FetchOrder[i] : i \in DOMAIN FetchOrder }

Revisions == { "A", "B" }

\* Fixture data sets, as the decoded rows of game_data.rs.  Data1 has, in
\* every table, rows that resolve and rows that do not.
Data1 ==
    [ text     |-> (1 :> "n1" @@ 2 :> "n2"),
      depot    |-> << [energy_skill |-> 1, skills |-> <<2, 3>>],
                      [energy_skill |-> 3, skills |-> <<1, 2, 3>>] >>,
      display  |-> << [display_type |-> "RELIQUARY_ITEM", name_text_map_hash |-> 1, param |-> 1],
                      [display_type |-> "RELIQUARY_ITEM", name_text_map_hash |-> 3, param |-> 2],
                      [display_type |-> "WEAPON_ITEM",    name_text_map_hash |-> 2, param |-> 3] >>,
      reliq    |-> << [equip_type |-> "EQUIP_DRESS", id |-> 1, rank_level |-> 5, set_id |-> 1],
                      [equip_type |-> "EQUIP_RING",  id |-> 2, rank_level |-> 4, set_id |-> 2],
                      [equip_type |-> "EQUIP_NONE",  id |-> 3, rank_level |-> 5, set_id |-> 1] >>,
      mainprop |-> << [id |-> 1, prop_type |-> "FIGHT_PROP_FIRE_ADD_HURT"],
                      [id |-> 2, prop_type |-> "FIGHT_PROP_NONE"] >>,
      affix    |-> << [id |-> 1, prop_type |-> "FIGHT_PROP_HP",            prop_value |-> 239],
                      [id |-> 2, prop_type |-> "FIGHT_PROP_ROCK_ADD_HURT", prop_value |-> 8],
                      [id |-> 3, prop_type |-> "FIGHT_PROP_BOGUS",         prop_value |-> 5] >>,
      weapon   |-> << [id |-> 1, name_text_map_hash |-> 2, rank_level |-> 5],
                      [id |-> 2, name_text_map_hash |-> 3, rank_level |-> 4] >>,
      material |-> << [id |-> 1, name_text_map_hash |-> 1],
                      [id |-> 3, name_text_map_hash |-> 3] >>,
      avatar   |-> << [id |-> 2, name_text_map_hash |-> 2],
                      [id |-> 1, name_text_map_hash |-> 3] >> ]

\* Data2 changes values, removes ids and adds ids with respect to Data1.
Data2 ==
    [ text     |-> (2 :> "m2" @@ 3 :> "m3"),
      depot    |-> << [energy_skill |-> 2, skills |-> <<1, 3>>] >>,
      display  |-> << [display_type |-> "RELIQUARY_ITEM", name_text_map_hash |-> 3, param |-> 2],
                      [display_type |-> "RELIQUARY_ITEM", name_text_map_hash |-> 2, param |-> 2] >>,
      reliq    |-> << [equip_type |-> "EQUIP_BRACER", id |-> 2, rank_level |-> 4, set_id |-> 2],
                      [equip_type |-> "EQUIP_SHOES",  id |-> 3, rank_level |-> 3, set_id |-> 1] >>,
      mainprop |-> << [id |-> 2, prop_type |-> "FIGHT_PROP_ATTACK"] >>,
      affix    |-> << [id |-> 1, prop_type |-> "FIGHT_PROP_HP", prop_value |-> 240] >>,
      weapon   |-> << [id |-> 3, name_text_map_hash |-> 3, rank_level |-> 3] >>,
      material |-> << [id |-> 1, name_text_map_hash |-> 2] >>,
      avatar   |-> << [id |-> 3, name_text_map_hash |-> 2] >> ]

\* Data3: a percentage affix whose source value times 100 exceeds the f64 range.
Data3 ==
    [ Data1 EXCEPT !.affix =
        << [id |-> 1, prop_type |-> "FIGHT_PROP_HP",       prop_value |-> 239],
           [id |-> 2, prop_type |-> "FIGHT_PROP_CRITICAL", prop_value |-> 11] >> ]

\* Data4: a skill-depot record whose skills list has a single entry.
Data4 ==
    [ Data1 EXCEPT !.depot =
        << [energy_skill |-> 1, skills |-> <<2, 3>>],
           [energy_skill |-> 3, skills |-> <<2>>] >> ]

DataSets == << Data1, Data2, Data3, Data4 >>

\* The payload a data set serves at a path.
Payload(data, path) ==
    CASE path = PathTextMap     -> data.text
      [] path = PathSkillDepot  -> data.depot
      [] path = PathDisplayItem -> data.display
      [] path = PathReliquary   -> data.reliq
      [] path = PathMainProp    -> data.mainprop
      [] path = PathAffix       -> data.affix
      [] path = PathWeapon      -> data.weapon
      [] path = PathMaterial    -> data.material
      [] path = PathAvatar      -> data.avatar

\* A data set all of whose tables are empty.
EmptyData ==
    [ text |-> <<>>, depot |-> <<>>, display |-> <<>>, reliq |-> <<>>,
      mainprop |-> <<>>, affix |-> <<>>, weapon |-> <<>>, material |-> <<>>,
      avatar |-> <<>> ]

NoSource == [ latest |-> None, data |-> EmptyData, bad |-> None ]

\* A source: the result of its revision query, the data set it serves and
\* the path (if any) whose fetch or decode fails.  A source whose revision
\* query fails is never asked for a table, so it is given no data; the
\* sources with a failing path serve the first two data sets.
Sources ==
    { NoSource } \cup
    { s \in [ latest : { Some(r) : r \in Revisions },
              data   : { DataSets[i] : i \in DOMAIN DataSets },
              bad    : {None} \cup { Some(p) : p \in Paths } ] :
        s.bad # None => s.data \in { Data1, Data2 } }

get_latest_hash(source) == source.latest

get_json_file(source, git_ref, path) ==
    IF source.bad = Some(path) THEN None
    ELSE Some(Payload(source.data, path))

----------------------------------------------------------------------------
(* Results of the fetch_* functions: Ok(map), Err (the `?` on get_json_file) *)
(* or a panic (an index out of bounds).                                      *)

Ok(v) == [ tag |-> "ok",    val |-> <<v>> ]
Err   == [ tag |-> "err",   val |-> <<>> ]
Panic == [ tag |-> "panic", val |-> <<>> ]

\* iterator.filter_map(..).collect::<HashMap<_, _>>() where opts[i] is the
\* closure's Option<(key, value)> for row i: a later pair replaces an
\* earlier one with the same key.
Collect(opts) ==
    LET live    == { i \in DOMAIN opts : opts[i] # None }
        keys    == { opts[i][1][1] : i \in live }
        last_(k) == CHOOSE i \in live :
                       /\ opts[i][1][1] = k
                       /\ \A j \in live : opts[j][1][1] = k => j <= i
    IN  [ k \in keys |-> opts[last_(k)][1][2] ]

lookup_text(text_map, id) ==
    IF id \in DOMAIN text_map THEN Some(text_map[id]) ELSE None

fetch_text_map(source, git_ref) ==
    LET data == get_json_file(source, git_ref, PathTextMap)
    IN  IF data = None THEN Err ELSE Ok(data[1])

\* The three inserts of one loop iteration, in order.
SkillInserts(config) ==
    << <<config.energy_skill, "Burst">>,
       <<config.skills[1], "Auto">>,
       <<config.skills[2], "Skill">> >>

\* Variant of fetch_skill_type_map: `entry(..).or_insert(..)`, the first
\* insert for a skill id stays.
fetch_skill_type_map_first_wins(source, git_ref) ==
    LET data == get_json_file(source, git_ref, PathSkillDepot)
    IN  IF data = None THEN Err
        ELSE LET rows == data[1]
                 n3   == 3 * Len(rows)
                 ins  == [ n \in 1..n3 |->
                             Some(SkillInserts(rows[((n3 - n) \div 3) + 1])[((n3 - n) % 3) + 1]) ]
             IN  IF \E i \in DOMAIN rows : Len(rows[i].skills) < 2
                 THEN Panic
                 ELSE Ok(Collect(ins))

fetch_skill_type_map(source, git_ref) ==
    LET data == get_json_file(source, git_ref, PathSkillDepot)
    IN  IF data = None THEN Err
        ELSE LET rows == data[1]
                 \* insert number n (1-based) over all records
                 ins  == [ n \in 1..(3 * Len(rows)) |->
                             Some(SkillInserts(rows[((n - 1) \div 3) + 1])[((n - 1) % 3) + 1]) ]
             IN  IF \E i \in DOMAIN rows : Len(rows[i].skills) < 2
                 THEN Panic
                 ELSE Ok(Collect(ins))

\* Variant of fetch_set_map: the display type is not tested.
fetch_set_map_any_type(source, git_ref, text_map) ==
    LET data == get_json_file(source, git_ref, PathDisplayItem)
    IN  IF data = None THEN Err
        ELSE LET f(entry) ==
                   LET name == lookup_text(text_map, entry.name_text_map_hash)
                   IN  IF name = None THEN None
                       ELSE Some(<<entry.param, name[1]>>)
             IN  Ok(Collect([ i \in DOMAIN data[1] |-> f(data[1][i]) ]))

fetch_set_map(source, git_ref, text_map) ==
    LET data == get_json_file(source, git_ref, PathDisplayItem)
    IN  IF data = None THEN Err
        ELSE LET f(entry) ==
                   IF entry.display_type # "RELIQUARY_ITEM" THEN None
                   ELSE LET name == lookup_text(text_map, entry.name_text_map_hash)
                        IN  IF name = None THEN None
                            ELSE Some(<<entry.param, name[1]>>)
             IN  Ok(Collect([ i \in DOMAIN data[1] |-> f(data[1][i]) ]))

\* Variant of fetch_artifact_map: a set id without a name gives an artifact
\* with an empty set name (`unwrap_or_default`).
fetch_artifact_map_default_set(source, git_ref, set_map) ==
    LET data == get_json_file(source, git_ref, PathReliquary)
    IN  IF data = None THEN Err
        ELSE LET f(entry) ==
                   LET slot == from_game_data_name(entry.equip_type)
                   IN  IF slot = None THEN None
                       ELSE Some(<<entry.id,
                                   [ set    |-> IF entry.set_id \in DOMAIN set_map
                                                THEN set_map[entry.set_id] ELSE "",
                                     slot   |-> slot[1],
                                     rarity |-> entry.rank_level ]>>)
             IN  Ok(Collect([ i \in DOMAIN data[1] |-> f(data[1][i]) ]))

fetch_artifact_map(source, git_ref, set_map) ==
    LET data == get_json_file(source, git_ref, PathReliquary)
    IN  IF data = None THEN Err
        ELSE LET f(entry) ==
                   IF entry.set_id \notin DOMAIN set_map THEN None
                   ELSE LET slot == from_game_data_name(entry.equip_type)
                        IN  IF slot = None THEN None
                            ELSE Some(<<entry.id,
                                        [ set    |-> set_map[entry.set_id],
                                          slot   |-> slot[1],
                                          rarity |-> entry.rank_level ]>>)
             IN  Ok(Collect([ i \in DOMAIN data[1] |-> f(data[1][i]) ]))

\* Variant of fetch_property_map: a property is kept only when its id has an
\* entry in the text table.
fetch_property_map_named(source, git_ref) ==
    LET data == get_json_file(source, git_ref, PathMainProp)
        text == get_json_file(source, git_ref, PathTextMap)
    IN  IF data = None \/ text = None THEN Err
        ELSE LET f(entry) ==
                   LET property == from_str(entry.prop_type)
                   IN  IF property = None THEN None
                       ELSE IF entry.id \notin DOMAIN text[1] THEN None
                       ELSE Some(<<entry.id, property[1]>>)
             IN  Ok(Collect([ i \in DOMAIN data[1] |-> f(data[1][i]) ]))

fetch_property_map(source, git_ref) ==
    LET data == get_json_file(source, git_ref, PathMainProp)
    IN  IF data = None THEN Err
        ELSE LET f(entry) ==
                   LET property == from_str(entry.prop_type)
                   IN  IF property = None THEN None
                       ELSE Some(<<entry.id, property[1]>>)
             IN  Ok(Collect([ i \in DOMAIN data[1] |-> f(data[1][i]) ]))

fetch_affix_map(source, git_ref) ==
    LET data == get_json_file(source, git_ref, PathAffix)
    IN  IF data = None THEN Err
        ELSE LET f(entry) ==
                   LET property == from_str(entry.prop_type)
                   IN  IF property = None THEN None
                       ELSE Some(<<entry.id,
                                   [ property |-> property[1],
                                     value    |-> IF is_percentage(property[1])
                                                  THEN Mul100(entry.prop_value)
                                                  ELSE entry.prop_value ]>>)
             IN  Ok(Collect([ i \in DOMAIN data[1] |-> f(data[1][i]) ]))

fetch_weapon_map(source, git_ref, text_map) ==
    LET data == get_json_file(source, git_ref, PathWeapon)
    IN  IF data = None THEN Err
        ELSE LET f(entry) ==
                   LET name == lookup_text(text_map, entry.name_text_map_hash)
                   IN  IF name = None THEN None
                       ELSE Some(<<entry.id,
                                   [ name |-> name[1], rarity |-> entry.rank_level ]>>)
             IN  Ok(Collect([ i \in DOMAIN data[1] |-> f(data[1][i]) ]))

fetch_material_map(source, git_ref, text_map) ==
    LET data == get_json_file(source, git_ref, PathMaterial)
    IN  IF data = None THEN Err
        ELSE LET f(entry) ==
                   LET name == lookup_text(text_map, entry.name_text_map_hash)
                   IN  IF name = None THEN None
                       ELSE Some(<<entry.id, name[1]>>)
             IN  Ok(Collect([ i \in DOMAIN data[1] |-> f(data[1][i]) ]))

\* Variant of fetch_character_map: a name that does not resolve fails the table.
fetch_character_map_abort(source, git_ref, text_map) ==
    LET data == get_json_file(source, git_ref, PathAvatar)
    IN  IF data = None THEN Err
        ELSE IF \E i \in DOMAIN data[1] :
                  lookup_text(text_map, data[1][i].name_text_map_hash) = None
        THEN Err
        ELSE Ok(Collect([ i \in DOMAIN data[1] |->
                  Some(<<data[1][i].id, text_map[data[1][i].name_text_map_hash]>>) ]))

fetch_character_map(source, git_ref, text_map) ==
    LET data == get_json_file(source, git_ref, PathAvatar)
    IN  IF data = None THEN Err
        ELSE LET f(entry) ==
                   LET name == lookup_text(text_map, entry.name_text_map_hash)
                   IN  IF name = None THEN None
                       ELSE Some(<<entry.id, name[1]>>)
             IN  Ok(Collect([ i \in DOMAIN data[1] |-> f(data[1][i]) ]))

----------------------------------------------------------------------------
(* Database *)

DATABASE_VERSION == 0

EmptyMap == [ k \in {} |-> 0 ]

\* Variant of Database::new: the text lookup table is a field of the snapshot.
DatabaseNewWithText(git_hash) ==
    [ version        |-> DATABASE_VERSION,
      git_hash       |-> git_hash,
      affix_map      |-> EmptyMap,
      artifact_map   |-> EmptyMap,
      character_map  |-> EmptyMap,
      material_map   |-> EmptyMap,
      property_map   |-> EmptyMap,
      set_map        |-> EmptyMap,
      skill_type_map |-> EmptyMap,
      text_map       |-> EmptyMap,
      weapon_map     |-> EmptyMap ]

\* Variant of Database::new: the revision is not recorded.
DatabaseNewNoHash(git_hash) ==
    [ version        |-> DATABASE_VERSION,
      git_hash       |-> "",
      affix_map      |-> EmptyMap,
      artifact_map   |-> EmptyMap,
      character_map  |-> EmptyMap,
      material_map   |-> EmptyMap,
      property_map   |-> EmptyMap,
      set_map        |-> EmptyMap,
      skill_type_map |-> EmptyMap,
      weapon_map     |-> EmptyMap ]

\* Database::new
DatabaseNew(git_hash) ==
    [ version        |-> DATABASE_VERSION,
      git_hash       |-> git_hash,
      affix_map      |-> EmptyMap,
      artifact_map   |-> EmptyMap,
      character_map  |-> EmptyMap,
      material_map   |-> EmptyMap,
      property_map   |-> EmptyMap,
      set_map        |-> EmptyMap,
      skill_type_map |-> EmptyMap,
      weapon_map     |-> EmptyMap ]

\* The lookups of the query facade, by the name of the map they read.
Kinds == { "affix", "artifact", "character", "material",
           "property", "set", "skill_type", "weapon" }

MapOf(d, kind) ==
    CASE kind = "affix"      -> d.affix_map
      [] kind = "artifact"   -> d.artifact_map
      [] kind = "character"  -> d.character_map
      [] kind = "material"   -> d.material_map
      [] kind = "property"   -> d.property_map
      [] kind = "set"        -> d.set_map
      [] kind = "skill_type" -> d.skill_type_map
      [] kind = "weapon"     -> d.weapon_map

\* Variant of get: get_material reads character_map.
get_wrong_map(odb, kind, id) ==
    LET k == IF kind = "material" THEN "character" ELSE kind
    IN  IF odb = None THEN None
        ELSE IF id \in DOMAIN MapOf(odb[1], k) THEN Some(MapOf(odb[1], k)[id])
        ELSE None

\* get_affix .. get_weapon on a store whose db field is odb: Ok(value) or Err.
get(odb, kind, id) ==
    IF odb = None THEN None
    ELSE IF id \in DOMAIN MapOf(odb[1], kind) THEN Some(MapOf(odb[1], kind)[id])
    ELSE None

\* Variant of has_data: a snapshot of another schema version does not count.
has_data_current(odb) == odb # None /\ odb[1].version = DATABASE_VERSION

has_data(odb) == odb # None

\* Variant of needs_update_impl: a failed revision query counts as "changed".
needs_update_impl_swallow(odb, source) ==
    IF odb = None THEN Some(TRUE)
    ELSE LET latest == get_latest_hash(source)
         IN  IF latest = None THEN Some(TRUE)
             ELSE Some(odb[1].git_hash # latest[1])

\* Variant of needs_update_impl: `==` in place of `!=`.
needs_update_impl_eq(odb, source) ==
    IF odb = None THEN Some(TRUE)
    ELSE LET latest == get_latest_hash(source)
         IN  IF latest = None THEN None
             ELSE Some(odb[1].git_hash = latest[1])

\* needs_update_impl: Ok(bool) or Err.
needs_update_impl(odb, source) ==
    IF odb = None THEN Some(TRUE)
    ELSE LET latest == get_latest_hash(source)
         IN  IF latest = None THEN None
             ELSE Some(odb[1].git_hash # latest[1])

----------------------------------------------------------------------------
(* The cache file: serde_json of Option<Database>.                          *)
(* A JSON value standing for an f64 is a number or null: serde_json writes  *)
(* a non-finite f64 as null, and refuses null where it reads an f64.        *)

JsonNum(n) == [ t |-> "num",  n |-> n ]
JsonNull   == [ t |-> "null", n |-> 0 ]

\* Serialize for f64
ser_f64(v) == IF v = PosInf \/ v = NegInf THEN JsonNull ELSE JsonNum(v)

\* Deserialize for f64
de_f64(j) == IF j.t = "num" THEN Some(j.n) ELSE None

\* serde_json::to_writer_pretty(writer, &self.db) for db = Some(d): Some is
\* transparent, the document is the Database object.
to_json(d) ==
    [ d EXCEPT !.affix_map =
        [ k \in DOMAIN d.affix_map |->
            [ property |-> d.affix_map[k].property,
              value    |-> ser_f64(d.affix_map[k].value) ] ] ]

\* serde_json::from_reader::<Database>: every field must decode; the version
\* field is read as any u32.
from_json(doc) ==
    IF \E k \in DOMAIN doc.affix_map : de_f64(doc.affix_map[k].value) = None
    THEN None
    ELSE Some([ doc EXCEPT !.affix_map =
                  [ k \in DOMAIN doc.affix_map |->
                      [ property |-> doc.affix_map[k].property,
                        value    |-> de_f64(doc.affix_map[k].value)[1] ] ] ])

FileMissing == [ kind |-> "missing", body |-> <<>> ]
FileCorrupt == [ kind |-> "corrupt", body |-> <<>> ]
FileDoc(doc) == [ kind |-> "doc", body |-> <<doc>> ]

\* Variant of load_from_path: a failed load yields an empty Database.
load_from_path_or_default(f) ==
    IF f.kind = "doc" /\ from_json(f.body[1]) # None THEN from_json(f.body[1])
    ELSE Some([ version        |-> DATABASE_VERSION,
                git_hash       |-> "",
                affix_map      |-> EmptyMap,
                artifact_map   |-> EmptyMap,
                character_map  |-> EmptyMap,
                material_map   |-> EmptyMap,
                property_map   |-> EmptyMap,
                set_map        |-> EmptyMap,
                skill_type_map |-> EmptyMap,
                weapon_map     |-> EmptyMap ])

\* Database::load_from_path: File::open fails on a missing file, from_reader
\* on bytes that are not a Database document.
load_from_path(f) ==
    IF f.kind = "doc" THEN from_json(f.body[1]) ELSE None

CachePath == "cache.json"

\* The outcomes of writing the file: File::create fails (file untouched),
\* the write fails after create truncated the file, or all is written.
WriteOutcomes == { "create_failed", "write_failed", "ok" }

\* try_save_db: the result and the file afterwards.
try_save_db(path, odb, f, w) ==
    IF path = None THEN [ result |-> "no_path", file |-> f ]
    ELSE IF w = "create_failed" THEN [ result |-> w, file |-> f ]
    ELSE IF w = "write_failed" THEN [ result |-> w, file |-> FileCorrupt ]
    ELSE [ result |-> "ok", file |-> FileDoc(to_json(odb[1])) ]

----------------------------------------------------------------------------
(* The state machine *)

\* A cache file left by a release with another schema version.
ForeignDoc ==
    [ to_json(DatabaseNew("A")) EXCEPT
        !.version = DATABASE_VERSION + 1,
        !.character_map = (1 :> "n0") ]

InitFiles == { FileMissing, FileCorrupt, FileDoc(ForeignDoc) }

\* The record of a completed call.
Ret(op, arg, src, outcome, value, before, queries, fetches, write) ==
    [ op      |-> op,
      arg     |-> arg,
      src     |-> src,
      outcome |-> outcome,
      value   |-> value,
      before  |-> before,
      queries |-> queries,
      fetches |-> fetches,
      write   |-> write ]

\* AnimeGameData::new() in a fresh process.
Init ==
    /\ db = None
    /\ cache_path = None
    /\ file \in InitFiles
    /\ pc = "idle"
    /\ upd = None
    /\ saved = None
    /\ last = [ op |-> "new", arg |-> <<>>, src |-> NoSource, outcome |-> "ok",
                value |-> <<>>, before |-> None, queries |-> 0, fetches |-> <<>>,
                write |-> "none" ]

\* The store is dropped and AnimeGameData::new() builds another.
New ==
    /\ pc = "idle"
    /\ db' = None
    /\ cache_path' = None
    /\ last' = Ret("new", <<>>, NoSource, "ok", <<>>, None, 0, <<>>, "none")
    /\ UNCHANGED <<file, pc, upd, saved>>

\* The store is dropped and AnimeGameData::new_with_cache(CachePath) builds another.
NewWithCache ==
    /\ pc = "idle"
    /\ db' = load_from_path(file)
    /\ cache_path' = Some(CachePath)
    /\ last' = Ret("new_with_cache", <<>>, NoSource, "ok", <<>>, None, 0, <<>>, "none")
    /\ UNCHANGED <<file, pc, upd, saved>>

HasData ==
    /\ pc = "idle"
    /\ last' = Ret("has_data", <<>>, NoSource, "ok", Some(has_data(db)), db, 0, <<>>, "none")
    /\ UNCHANGED <<db, cache_path, file, pc, upd, saved>>

Get(kind, id) ==
    /\ pc = "idle"
    /\ LET r == get(db, kind, id)
       IN  last' = Ret("get", <<kind, id>>, NoSource,
                       IF r = None THEN "err" ELSE "ok", r, db, 0, <<>>, "none")
    /\ UNCHANGED <<db, cache_path, file, pc, upd, saved>>

NeedsUpdate(source) ==
    /\ pc = "idle"
    /\ LET r == needs_update_impl(db, source)
       IN  last' = Ret("needs_update", <<>>, source,
                       IF r = None THEN "err" ELSE "ok", r, db,
                       IF db = None THEN 0 ELSE 1, <<>>, "none")
    /\ UNCHANGED <<db, cache_path, file, pc, upd, saved>>

\* Variant of UpdateHashFails: the snapshot is taken out of the store before
\* the revision query and not put back when the query fails.
UpdateHashFailsDropsDb(source) ==
    /\ pc = "idle"
    /\ get_latest_hash(source) = None
    /\ db' = None
    /\ last' = Ret("update", <<>>, source, "err", <<>>, db, 1, <<>>, "none")
    /\ UNCHANGED <<cache_path, file, pc, upd, saved>>

\* update_impl, `source.get_latest_hash().await?` fails.
UpdateHashFails(source) ==
    /\ pc = "idle"
    /\ get_latest_hash(source) = None
    /\ last' = Ret("update", <<>>, source, "err", <<>>, db, 1, <<>>, "none")
    /\ UNCHANGED <<db, cache_path, file, pc, upd, saved>>

\* Variant of UpToDate: the comparison is inverted.
UpToDateInverted(odb, latest_git_hash) ==
    odb # None /\ odb[1].git_hash # latest_git_hash

\* The "already up to date" test of update_impl.
UpToDate(odb, latest_git_hash) ==
    odb # None /\ odb[1].git_hash = latest_git_hash

\* Variant of UpdateUpToDate: the up-to-date branch saves the snapshot again.
UpdateUpToDateSaves(source) ==
    /\ pc = "idle"
    /\ get_latest_hash(source) # None
    /\ UpToDate(db, get_latest_hash(source)[1])
    /\ file' = try_save_db(cache_path, db, file, "ok").file
    /\ saved' = IF cache_path = None THEN saved ELSE db
    /\ last' = Ret("update", <<>>, source, "ok", <<>>, db, 1, <<>>, "none")
    /\ UNCHANGED <<db, cache_path, pc, upd>>

\* update_impl, the data is already up to date.
UpdateUpToDate(source) ==
    /\ pc = "idle"
    /\ get_latest_hash(source) # None
    /\ UpToDate(db, get_latest_hash(source)[1])
    /\ last' = Ret("update", <<>>, source, "ok", <<>>, db, 1, <<>>, "none")
    /\ UNCHANGED <<db, cache_path, file, pc, upd, saved>>

\* Variant of UpdateBegin: the tables are fetched at the revision of the
\* installed snapshot when there is one.
UpdateBeginStaleRev(source) ==
    /\ pc = "idle"
    /\ get_latest_hash(source) # None
    /\ ~UpToDate(db, get_latest_hash(source)[1])
    /\ pc' = "fetch"
    /\ upd' = Some([ src      |-> source,
                     rev      |-> IF db = None THEN get_latest_hash(source)[1]
                                  ELSE db[1].git_hash,
                     step     |-> 1,
                     text_map |-> EmptyMap,
                     db       |-> DatabaseNew(get_latest_hash(source)[1]),
                     before   |-> db,
                     fetches  |-> <<>> ])
    /\ last' = Ret("update", <<>>, source, "pending", <<>>, db, 1, <<>>, "none")
    /\ UNCHANGED <<db, cache_path, file, saved>>

\* update_impl up to its first table fetch: Database::new(&latest_git_hash).
UpdateBegin(source) ==
    /\ pc = "idle"
    /\ get_latest_hash(source) # None
    /\ ~UpToDate(db, get_latest_hash(source)[1])
    /\ pc' = "fetch"
    /\ upd' = Some([ src      |-> source,
                     rev      |-> get_latest_hash(source)[1],
                     step     |-> 1,
                     text_map |-> EmptyMap,
                     db       |-> DatabaseNew(get_latest_hash(source)[1]),
                     before   |-> db,
                     fetches  |-> <<>> ])
    /\ last' = Ret("update", <<>>, source, "pending", <<>>, db, 1, <<>>, "none")
    /\ UNCHANGED <<db, cache_path, file, saved>>

\* Variant of StepResult: the artifact map is joined with the set-name map
\* of the installed snapshot (`self.db`) instead of the local `db.set_map`.
StepResultInstalledSetMap(u) ==
    CASE u.step = 1 -> fetch_text_map(u.src, u.rev)
      [] u.step = 2 -> fetch_skill_type_map(u.src, u.rev)
      [] u.step = 3 -> fetch_set_map(u.src, u.rev, u.text_map)
      [] u.step = 4 -> fetch_artifact_map(u.src, u.rev,
                           IF db = None THEN EmptyMap ELSE db[1].set_map)
      [] u.step = 5 -> fetch_property_map(u.src, u.rev)
      [] u.step = 6 -> fetch_affix_map(u.src, u.rev)
      [] u.step = 7 -> fetch_weapon_map(u.src, u.rev, u.text_map)
      [] u.step = 8 -> fetch_material_map(u.src, u.rev, u.text_map)
      [] u.step = 9 -> fetch_character_map(u.src, u.rev, u.text_map)

\* The fetch_* call of step u.step of update_impl.
StepResult(u) ==
    CASE u.step = 1 -> fetch_text_map(u.src, u.rev)
      [] u.step = 2 -> fetch_skill_type_map(u.src, u.rev)
      [] u.step = 3 -> fetch_set_map(u.src, u.rev, u.text_map)
      [] u.step = 4 -> fetch_artifact_map(u.src, u.rev, u.db.set_map)
      [] u.step = 5 -> fetch_property_map(u.src, u.rev)
      [] u.step = 6 -> fetch_affix_map(u.src, u.rev)
      [] u.step = 7 -> fetch_weapon_map(u.src, u.rev, u.text_map)
      [] u.step = 8 -> fetch_material_map(u.src, u.rev, u.text_map)
      [] u.step = 9 -> fetch_character_map(u.src, u.rev, u.text_map)

\* The assignment of step u.step: `let text_map = ..` or `db.<map> = ..`.
StepAssign(u, v) ==
    CASE u.step = 1 -> [ u EXCEPT !.text_map = v ]
      [] u.step = 2 -> [ u EXCEPT !.db.skill_type_map = v ]
      [] u.step = 3 -> [ u EXCEPT !.db.set_map = v ]
      [] u.step = 4 -> [ u EXCEPT !.db.artifact_map = v ]
      [] u.step = 5 -> [ u EXCEPT !.db.property_map = v ]
      [] u.step = 6 -> [ u EXCEPT !.db.affix_map = v ]
      [] u.step = 7 -> [ u EXCEPT !.db.weapon_map = v ]
      [] u.step = 8 -> [ u EXCEPT !.db.material_map = v ]
      [] u.step = 9 -> [ u EXCEPT !.db.character_map = v ]

\* The fetches issued so far, with the one of the current step.
Issued(u) == Append(u.fetches, <<u.rev, FetchOrder[u.step]>>)

\* Variant of FetchErr: the maps are assigned into self.db as they arrive, so
\* a failure leaves the partly filled Database installed.
FetchErrInstallsPartial ==
    /\ pc = "fetch"
    /\ StepResult(upd[1]).tag = "err"
    /\ pc' = "idle"
    /\ db' = Some(upd[1].db)
    /\ upd' = None
    /\ last' = Ret("update", <<>>, upd[1].src, "err", <<>>, upd[1].before, 1,
                   Issued(upd[1]), "none")
    /\ UNCHANGED <<cache_path, file, saved>>

\* A table fetch or decode fails: `?` returns the error from update_impl.
FetchErr ==
    /\ pc = "fetch"
    /\ StepResult(upd[1]).tag = "err"
    /\ pc' = "idle"
    /\ upd' = None
    /\ last' = Ret("update", <<>>, upd[1].src, "err", <<>>, upd[1].before, 1,
                   Issued(upd[1]), "none")
    /\ UNCHANGED <<db, cache_path, file, saved>>

\* A fetch_* function panics: update_impl unwinds.
FetchPanic ==
    /\ pc = "fetch"
    /\ StepResult(upd[1]).tag = "panic"
    /\ pc' = "idle"
    /\ upd' = None
    /\ last' = Ret("update", <<>>, upd[1].src, "panic", <<>>, upd[1].before, 1,
                   Issued(upd[1]), "none")
    /\ UNCHANGED <<db, cache_path, file, saved>>

\* Variant of FetchStep: each map is assigned into self.db as it arrives.
FetchStepAssignsLive ==
    /\ pc = "fetch"
    /\ upd[1].step < Len(FetchOrder)
    /\ StepResult(upd[1]).tag = "ok"
    /\ upd' = Some([ StepAssign(upd[1], StepResult(upd[1]).val[1]) EXCEPT
                       !.step = @ + 1,
                       !.fetches = Issued(upd[1]) ])
    /\ db' = Some(StepAssign(upd[1], StepResult(upd[1]).val[1]).db)
    /\ UNCHANGED <<cache_path, file, pc, last, saved>>

\* One of the first eight steps succeeds.
FetchStep ==
    /\ pc = "fetch"
    /\ upd[1].step < Len(FetchOrder)
    /\ StepResult(upd[1]).tag = "ok"
    /\ upd' = Some([ StepAssign(upd[1], StepResult(upd[1]).val[1]) EXCEPT
                       !.step = @ + 1,
                       !.fetches = Issued(upd[1]) ])
    /\ UNCHANGED <<db, cache_path, file, pc, last, saved>>

\* Variant of Install: the new maps are merged into the installed ones.
InstallMerged(old, new) ==
    IF old = None THEN Some(new)
    ELSE Some([ new EXCEPT
                  !.affix_map      = @ @@ old[1].affix_map,
                  !.artifact_map   = @ @@ old[1].artifact_map,
                  !.character_map  = @ @@ old[1].character_map,
                  !.material_map   = @ @@ old[1].material_map,
                  !.property_map   = @ @@ old[1].property_map,
                  !.set_map        = @ @@ old[1].set_map,
                  !.skill_type_map = @ @@ old[1].skill_type_map,
                  !.weapon_map     = @ @@ old[1].weapon_map ])

\* `self.db = Some(db)`
Install(old, new) == Some(new)

\* Variant of UpdateReturn: `self.try_save_db()?`.
UpdateReturnPropagates(save_result) ==
    IF save_result = "ok" THEN "ok" ELSE "err"

\* The value update_impl returns after `let _ = self.try_save_db()`.
UpdateReturn(save_result) == "ok"

\* The last step succeeds: the new Database is installed and saved.
FetchFinish(w) ==
    /\ pc = "fetch"
    /\ upd[1].step = Len(FetchOrder)
    /\ StepResult(upd[1]).tag = "ok"
    /\ LET u == StepAssign(upd[1], StepResult(upd[1]).val[1])
           s == try_save_db(cache_path, Install(db, u.db), file, w)
       IN  /\ db' = Install(db, u.db)
           /\ file' = s.file
           /\ saved' = IF s.result = "ok" THEN Install(db, u.db)
                       ELSE IF s.result = "write_failed" THEN None
                       ELSE saved
           /\ last' = Ret("update", <<>>, u.src, UpdateReturn(s.result), <<>>,
                          u.before, 1, Issued(upd[1]), s.result)
    /\ pc' = "idle"
    /\ upd' = None
    /\ UNCHANGED cache_path

Next ==
    \/ New
    \/ NewWithCache
    \/ HasData
    \/ \E kind \in Kinds, id \in Ids : Get(kind, id)
    \/ \E source \in Sources : NeedsUpdate(source)
    \/ \E source \in Sources : UpdateHashFails(source)
    \/ \E source \in Sources : UpdateUpToDate(source)
    \/ \E source \in Sources : UpdateBegin(source)
    \/ FetchErr
    \/ FetchPanic
    \/ FetchStep
    \/ \E w \in WriteOutcomes : FetchFinish(w)

Spec == Init /\ [][Next]_vars

----------------------------------------------------------------------------
(* The derivation functions on generated tables: one update of a fresh      *)
(* store against a source whose tables are drawn from bounded sets of rows. *)

\* Longest generated table.
MaxRows == 2

SeqsUpTo(S, n) == UNION { [1..k -> S] : k \in 0..n }

TextMaps == { (1 :> "n1"), (1 :> "n1" @@ 2 :> "n2") }

PropStrings == DOMAIN PropertyTable \cup { "FIGHT_PROP_NONE" }

FewPropStrings == { "FIGHT_PROP_HP", "FIGHT_PROP_CRITICAL", "FIGHT_PROP_NONE" }

EquipStrings == { "EQUIP_BRACER", "EQUIP_NECKLACE", "EQUIP_SHOES",
                  "EQUIP_RING", "EQUIP_DRESS", "EQUIP_NONE" }

\* Tables of one row over all the rows, and longer ones over fewer rows.
AffixTables ==
    [1..1 -> [ id : {1, 2}, prop_type : PropStrings, prop_value : {3, 11} ]]
    \cup SeqsUpTo([ id : {1, 2}, prop_type : FewPropStrings, prop_value : {3} ],
                  MaxRows)

MainPropTables ==
    [1..1 -> [ id : {1, 2}, prop_type : PropStrings ]]
    \cup SeqsUpTo([ id : {1, 2}, prop_type : FewPropStrings ], MaxRows)

DepotTables ==
    SeqsUpTo([ energy_skill : {1, 2},
               skills : { <<1, 2>>, <<2, 1, 3>>, <<3>> } ],
             MaxRows)

DisplayRows ==
    [ display_type : { "RELIQUARY_ITEM", "WEAPON_ITEM" },
      name_text_map_hash : {1, 2}, param : {1, 2} ]

\* The display tables the generated reliquary tables are joined with: they
\* give no set name, a name for set 1, or a name for set 2.
JoinDisplayTables ==
    { <<>>,
      << [ display_type |-> "RELIQUARY_ITEM", name_text_map_hash |-> 1, param |-> 1 ] >>,
      << [ display_type |-> "RELIQUARY_ITEM", name_text_map_hash |-> 2, param |-> 2 ] >> }

ReliqTables ==
    [1..1 -> [ equip_type : EquipStrings, id : {1, 2}, rank_level : {4, 5},
               set_id : {1, 2} ]]
    \cup SeqsUpTo([ equip_type : { "EQUIP_DRESS", "EQUIP_NONE" }, id : {1, 2},
                    rank_level : {5}, set_id : {1, 2} ], MaxRows)

WeaponTables ==
    [1..1 -> [ id : {1, 2}, name_text_map_hash : {1, 2}, rank_level : {4, 5} ]]
    \cup SeqsUpTo([ id : {1, 2}, name_text_map_hash : {1, 2}, rank_level : {5} ],
                  MaxRows)

NameTables == SeqsUpTo([ id : {1, 2}, name_text_map_hash : {1, 2} ], MaxRows)

\* The generated data sets: each varies the tables one derived map reads.
GenData ==
    { [ EmptyData EXCEPT !.affix = t ] : t \in AffixTables }
    \cup { [ EmptyData EXCEPT !.mainprop = t ] : t \in MainPropTables }
    \cup { [ EmptyData EXCEPT !.depot = t ] : t \in DepotTables }
    \cup { [ EmptyData EXCEPT !.text = x[1], !.display = x[2] ] :
             x \in TextMaps \X SeqsUpTo(DisplayRows, MaxRows) }
    \cup { [ EmptyData EXCEPT !.text = (1 :> "n1" @@ 2 :> "n2"),
                              !.display = x[1], !.reliq = x[2] ] :
             x \in JoinDisplayTables \X ReliqTables }
    \cup { [ EmptyData EXCEPT !.text = x[1], !.weapon = x[2] ] :
             x \in TextMaps \X WeaponTables }
    \cup { [ EmptyData EXCEPT !.text = x[1], !.material = x[2] ] :
             x \in TextMaps \X NameTables }
    \cup { [ EmptyData EXCEPT !.text = x[1], !.avatar = x[2] ] :
             x \in TextMaps \X NameTables }

\* The generated sources: every generated data set served whole, and the
\* empty data set with one table that cannot be fetched.
GenSources ==
    { [ latest |-> Some("A"), data |-> d, bad |-> None ] : d \in GenData }
    \cup { [ latest |-> Some("A"), data |-> EmptyData, bad |-> Some(p) ] : p \in Paths }

InitDerive == Init /\ file = FileMissing

\* The first update of the fresh store.
DeriveBegin(source) == last.op = "new" /\ UpdateBegin(source)

NextDerive ==
    \/ \E source \in GenSources : DeriveBegin(source)
    \/ FetchStep
    \/ FetchErr
    \/ FetchPanic
    \/ \E w \in WriteOutcomes : FetchFinish(w)

DeriveSpec == InitDerive /\ [][NextDerive]_vars

----------------------------------------------------------------------------
(* Properties *)

\* Some fetch of the call recorded in l hit the source's failing path.
FetchFailed(l) ==
    \E k \in DOMAIN l.fetches : l.src.bad = Some(l.fetches[k][2])

\* C1 (atomicity of update): whenever a table fetch of an update failed, at
\* whichever of the nine steps, the update returned an error and the store's
\* snapshot (or its absence) is exactly what it was before the call.
C1_Atomicity ==
    (last.op = "update" /\ FetchFailed(last))
        => (last.outcome = "err" /\ db = last.before)

\* An update failed at its ninth fetch with a snapshot loaded.
C1_Witness ==
    /\ last.op = "update"
    /\ last.outcome = "err"
    /\ Len(last.fetches) = Len(FetchOrder)
    /\ FetchFailed(last)
    /\ last.before # None
    /\ db = last.before

\* C2 (idempotence of update): an update against a source whose latest
\* revision equals the loaded snapshot's revision makes one revision query
\* and no table fetch, returns success, writes nothing and leaves the
\* snapshot identical.
C2_Idempotence ==
    (/\ last.op = "update"
     /\ last.outcome # "pending"
     /\ last.before # None
     /\ last.src.latest = Some(last.before[1].git_hash))
        => (/\ last.outcome = "ok"
            /\ last.queries = 1
            /\ last.fetches = <<>>
            /\ last.write = "none"
            /\ db = last.before)

\* A no-op update has returned on a store with data.
C2_Witness ==
    /\ last.op = "update"
    /\ last.outcome = "ok"
    /\ last.before # None
    /\ last.src.latest = Some(last.before[1].git_hash)
    /\ last.fetches = <<>>
    /\ db = last.before

\* C3 (needs_update): needs_update_impl answers true when no snapshot is
\* loaded, and otherwise, when the revision query succeeds, whether the
\* snapshot's revision differs from the latest one; it fetches no table and
\* leaves the snapshot as it was.
C3_NeedsUpdate ==
    last.op = "needs_update"
        => (/\ db = last.before
            /\ last.fetches = <<>>
            /\ last.queries <= 1
            /\ (last.before = None
                  => last.outcome = "ok" /\ last.value = Some(TRUE))
            /\ (last.before # None /\ last.src.latest # None
                  => /\ last.outcome = "ok"
                     /\ last.value =
                          Some(last.before[1].git_hash # last.src.latest[1])))

\* needs_update_impl answered false: a snapshot at the latest revision.
C3_Witness ==
    /\ last.op = "needs_update"
    /\ last.outcome = "ok"
    /\ last.value = Some(FALSE)
    /\ db # None

\* The maps derived from the tables a source serves at git_ref, and nothing else.
DerivedMaps(source, git_ref) ==
    LET text_map == fetch_text_map(source, git_ref).val[1]
        set_map  == fetch_set_map(source, git_ref, text_map).val[1]
    IN  [ affix      |-> fetch_affix_map(source, git_ref).val[1],
          artifact   |-> fetch_artifact_map(source, git_ref, set_map).val[1],
          character  |-> fetch_character_map(source, git_ref, text_map).val[1],
          material   |-> fetch_material_map(source, git_ref, text_map).val[1],
          property   |-> fetch_property_map(source, git_ref).val[1],
          set        |-> set_map,
          skill_type |-> fetch_skill_type_map(source, git_ref).val[1],
          weapon     |-> fetch_weapon_map(source, git_ref, text_map).val[1] ]

\* The last call was a successful update that replaced a snapshot of another revision.
Superseded ==
    /\ last.op = "update"
    /\ last.outcome = "ok"
    /\ last.before # None
    /\ last.src.latest # Some(last.before[1].git_hash)

\* C4 (supersession): after a successful update against revision B of a store
\* holding revision A # B, the snapshot records B and each of its maps is the
\* map derived from B's tables alone: no id of the old snapshot survives
\* unless B's tables produce it, and then with B's value.
C4_Supersession ==
    Superseded
        => (/\ db # None
            /\ db[1].git_hash = last.src.latest[1]
            /\ \A kind \in Kinds :
                 /\ MapOf(db[1], kind) = DerivedMaps(last.src, last.src.latest[1])[kind]
                 /\ \A id \in DOMAIN MapOf(last.before[1], kind) :
                      id \notin DOMAIN DerivedMaps(last.src, last.src.latest[1])[kind]
                          => get(db, kind, id) = None)

\* A supersession in which one affix id of the old snapshot disappeared and
\* another changed its value.
C4_Witness ==
    /\ Superseded
    /\ db # None
    /\ \E id \in DOMAIN last.before[1].affix_map : id \notin DOMAIN db[1].affix_map
    /\ \E id \in DOMAIN last.before[1].affix_map :
         /\ id \in DOMAIN db[1].affix_map
         /\ db[1].affix_map[id] # last.before[1].affix_map[id]

\* C5: in the state a successful update leaves, whatever the store was before,
\* has_data is true and needs_update_impl against the same source answers false.
C5_FreshAfterUpdate ==
    (last.op = "update" /\ last.outcome = "ok")
        => (/\ has_data(db)
            /\ needs_update_impl(db, last.src) = Some(FALSE))

\* A successful update that fetched the tables into a store without data.
C5_Witness ==
    /\ last.op = "update"
    /\ last.outcome = "ok"
    /\ last.before = None
    /\ Len(last.fetches) = Len(FetchOrder)
    /\ has_data(db)

\* C6 (cache round-trip): a store re-created with new_with_cache from the file
\* a successful save wrote answers every get_* lookup as the store that wrote
\* the file.
C6_CacheRoundTrip ==
    (last.op = "new_with_cache" /\ saved # None)
        => \A kind \in Kinds, id \in Ids : get(db, kind, id) = get(saved, kind, id)

\* C7 (staleness across restarts): a store re-created with new_with_cache from
\* the file saved at revision R needs no update against a source at R and
\* needs one against a source at any other revision.
C7_StalenessAcrossRestart ==
    (last.op = "new_with_cache" /\ saved # None)
        => \A source \in Sources :
             source.latest # None
                 => needs_update_impl(db, source)
                      = Some(source.latest[1] # saved[1].git_hash)

\* The file holds a document that decodes into a Database.
Decodable(f) ==
    /\ f.kind = "doc"
    /\ \A k \in DOMAIN f.body[1].affix_map : f.body[1].affix_map[k].value.t = "num"

\* C8: new_with_cache on a missing or undecodable file returns a store
\* without data that remembers the path: needs_update_impl answers true for
\* every source and every get_* fails.
C8_LoadFailureIgnored ==
    (last.op = "new_with_cache" /\ ~Decodable(file))
        => (/\ last.outcome = "ok"
            /\ ~has_data(db)
            /\ cache_path = Some(CachePath)
            /\ \A source \in Sources : needs_update_impl(db, source) = Some(TRUE)
            /\ \A kind \in Kinds, id \in Ids : get(db, kind, id) = None)

\* new_with_cache has read a file that is not a snapshot document.
C8_Witness ==
    /\ last.op = "new_with_cache"
    /\ file.kind = "corrupt"
    /\ ~has_data(db)
    /\ cache_path = Some(CachePath)

\* C9 (schema-version gate): new_with_cache on a well-formed document whose
\* version is not DATABASE_VERSION yields a store without data, for which
\* needs_update_impl answers true whatever the document's git_hash.
C9_VersionGate ==
    (/\ last.op = "new_with_cache"
     /\ file.kind = "doc"
     /\ file.body[1].version # DATABASE_VERSION)
        => (/\ ~has_data(db)
            /\ \A source \in Sources : needs_update_impl(db, source) = Some(TRUE))

\* C10 (best-effort persistence): an update whose nine fetches all succeeded
\* returns success with the new snapshot installed, whether the cache file
\* was written, could not be written, or no cache path is configured.
C10_BestEffortSave ==
    (/\ last.op = "update"
     /\ Len(last.fetches) = Len(FetchOrder)
     /\ ~FetchFailed(last))
        => (/\ last.outcome = "ok"
            /\ last.write \in { "no_path", "create_failed", "write_failed", "ok" }
            /\ db # None
            /\ db # last.before
            /\ db[1].git_hash = last.src.latest[1]
            /\ \A kind \in Kinds :
                 MapOf(db[1], kind) = DerivedMaps(last.src, last.src.latest[1])[kind])

\* An update succeeded although the write of the cache file failed midway.
C10_Witness ==
    /\ last.op = "update"
    /\ last.outcome = "ok"
    /\ last.write = "write_failed"
    /\ file = FileCorrupt
    /\ db # None
    /\ db # last.before

\* C11 (query facade): a get_* call returns an error when no snapshot is
\* loaded or the id is absent from the map of that lookup, returns the stored
\* value otherwise, and changes neither the snapshot, the cache path nor the
\* cache file.
C11_Lookups ==
    [][ last'.op = "get"
          => LET kind == last'.arg[1]
                 id   == last'.arg[2]
                 miss == db = None \/ id \notin DOMAIN MapOf(db[1], kind)
             IN  /\ db' = db
                 /\ cache_path' = cache_path
                 /\ file' = file
                 /\ miss => last'.outcome = "err" /\ last'.value = None
                 /\ ~miss => /\ last'.outcome = "ok"
                             /\ last'.value = Some(MapOf(db[1], kind)[id]) ]_vars

\* get_material found an id in a loaded snapshot.
C11_Witness ==
    /\ last.op = "get"
    /\ last.arg[1] = "material"
    /\ last.outcome = "ok"
    /\ db # None
    /\ last.value = Some(db[1].material_map[last.arg[2]])

\* C12 as claimed: needs_update fails whenever the revision query fails,
\* whether or not a snapshot is loaded.
C12_ErrorInEveryState ==
    (last.op = "needs_update" /\ last.src.latest = None)
        => last.outcome = "err"

\* C12 as amended: when the revision query fails, needs_update fails if a
\* snapshot is loaded; with no snapshot loaded it returns true without
\* making the revision query.
C12_ErrorWhenLoaded ==
    (last.op = "needs_update" /\ last.src.latest = None)
        => (/\ last.before # None
                 => last.outcome = "err" /\ last.value = None /\ last.queries = 1
            /\ last.before = None
                 => last.outcome = "ok" /\ last.value = Some(TRUE) /\ last.queries = 0)

\* needs_update failed on a store with a snapshot.
C12_Witness ==
    /\ last.op = "needs_update"
    /\ last.src.latest = None
    /\ last.before # None
    /\ last.outcome = "err"

\* C13 (outcomes of update): an update that has returned, returned either
\* success or an error, and an error exactly when the revision query or a
\* table fetch failed; rows that do not resolve, a short skills list
\* included, only drop entries.
C13_TwoOutcomes ==
    (last.op = "update" /\ last.outcome # "pending")
        => (/\ last.outcome \in { "ok", "err" }
            /\ last.outcome = "err" <=> (last.src.latest = None \/ FetchFailed(last)))

\* The snapshot a source yields when all its fetches succeed.
SnapshotOf(source) ==
    [ version        |-> DATABASE_VERSION,
      git_hash       |-> source.latest[1],
      affix_map      |-> DerivedMaps(source, source.latest[1]).affix,
      artifact_map   |-> DerivedMaps(source, source.latest[1]).artifact,
      character_map  |-> DerivedMaps(source, source.latest[1]).character,
      material_map   |-> DerivedMaps(source, source.latest[1]).material,
      property_map   |-> DerivedMaps(source, source.latest[1]).property,
      set_map        |-> DerivedMaps(source, source.latest[1]).set,
      skill_type_map |-> DerivedMaps(source, source.latest[1]).skill_type,
      weapon_map     |-> DerivedMaps(source, source.latest[1]).weapon ]

\* The complete snapshots: none, the one of the cache file found at start,
\* and for each source the whole snapshot of one synchronization with it.
CompleteSnapshots ==
    { None, from_json(ForeignDoc) } \cup
    { Some(SnapshotOf(source)) :
        source \in { s \in Sources :
                       /\ s.latest # None
                       /\ s.bad = None
                       /\ fetch_skill_type_map(s, s.latest[1]).tag = "ok" } }

\* C14 (no mixed snapshot): in every state, the points between the steps of
\* an update included, the visible snapshot is a complete one, and while an
\* update is in flight it is the snapshot the update found.
C14_NoMixedSnapshot ==
    /\ db \in CompleteSnapshots
    /\ pc = "fetch" => db = upd[1].before /\ db = last.before

\* An update has derived eight of its tables for another revision than the
\* one of the visible snapshot.
C14_Witness ==
    /\ pc = "fetch"
    /\ upd[1].step = Len(FetchOrder)
    /\ db # None
    /\ db[1].git_hash # upd[1].db.git_hash
    /\ db[1].affix_map # upd[1].db.affix_map

\* The last call is an update that fetched its tables and returned success.
Derived ==
    /\ last.op = "update"
    /\ last.outcome = "ok"
    /\ last.fetches # <<>>
    /\ db # None

\* Row i is the last row of rows with its key among the rows that resolve.
LastResolving(rows, i, Key(_), Res(_)) ==
    /\ Res(rows[i])
    /\ \A j \in DOMAIN rows :
         (j > i /\ Res(rows[j])) => Key(rows[j]) # Key(rows[i])

\* C15 (percentage scaling): for every affix row whose prop_type parses (the
\* last such row of its id), the stored affix has the parsed property, and
\* its value is the f64 product of the source value and 100 when the
\* property is a percentage kind and the source value otherwise.
C15_PercentageScaling ==
    Derived
        => LET rows   == last.src.data.affix
               Id(r)  == r.id
               Res(r) == r.prop_type \in DOMAIN PropertyTable
           IN  \A i \in DOMAIN rows :
                 LastResolving(rows, i, Id, Res)
                     => /\ rows[i].id \in DOMAIN db[1].affix_map
                        /\ db[1].affix_map[rows[i].id].property
                             = PropertyTable[rows[i].prop_type]
                        /\ db[1].affix_map[rows[i].id].value
                             = IF is_percentage(PropertyTable[rows[i].prop_type])
                               THEN IF rows[i].prop_value * 100 > F64Max
                                    THEN PosInf
                                    ELSE rows[i].prop_value * 100
                               ELSE rows[i].prop_value

\* A table with a flat row and a percentage row was derived: 3 stays 3 for
\* Hp and becomes 300 for CritRate.
C15_Witness ==
    /\ Derived
    /\ DOMAIN db[1].affix_map = {1, 2}
    /\ \E a, b \in {1, 2} :
         /\ db[1].affix_map[a] = [ property |-> "Hp", value |-> 3 ]
         /\ db[1].affix_map[b] = [ property |-> "CritRate", value |-> 300 ]

\* The equip types that name a slot.
RecognizedEquip ==
    { "EQUIP_BRACER", "EQUIP_NECKLACE", "EQUIP_SHOES", "EQUIP_RING", "EQUIP_DRESS" }

\* C16 (join dependency): after a successful update an artifact id is in the
\* artifact map exactly when some reliquary row with that id has a set id in
\* the set-name map of the same update and a recognized equip type; a stored
\* artifact's set is the set-name map's value for the set id of such a row,
\* never an empty name.
C16_JoinDependency ==
    Derived
        => LET rows    == last.src.data.reliq
               set_map == db[1].set_map
               Joins(r) == r.set_id \in DOMAIN set_map /\ r.equip_type \in RecognizedEquip
               ids     == { rows[i].id : i \in DOMAIN rows } \cup DOMAIN db[1].artifact_map
           IN  \A id \in ids :
                 /\ id \in DOMAIN db[1].artifact_map
                      <=> \E i \in DOMAIN rows : rows[i].id = id /\ Joins(rows[i])
                 /\ id \in DOMAIN db[1].artifact_map
                      => /\ db[1].artifact_map[id].set # ""
                         /\ \E i \in DOMAIN rows :
                              /\ rows[i].id = id
                              /\ Joins(rows[i])
                              /\ db[1].artifact_map[id].set = set_map[rows[i].set_id]

\* Two reliquary rows with recognized equip types, one for a set without a
\* name and one for a named set: only the second is in the map.
C16_Witness ==
    /\ Derived
    /\ Len(last.src.data.reliq) = 2
    /\ \A i \in {1, 2} : last.src.data.reliq[i].equip_type \in RecognizedEquip
    /\ last.src.data.reliq[1].set_id \notin DOMAIN db[1].set_map
    /\ last.src.data.reliq[2].set_id \in DOMAIN db[1].set_map
    /\ DOMAIN db[1].artifact_map = { last.src.data.reliq[2].id }
    /\ last.src.data.reliq[1].id # last.src.data.reliq[2].id

\* The role record r gives skill id x: Burst, Auto and Skill are inserted in
\* this order, so within one record the later insert stays.
RoleIn(r, x) ==
    IF r.skills[2] = x THEN "Skill"
    ELSE IF r.skills[1] = x THEN "Auto"
    ELSE "Burst"

\* Record r references skill id x.
References(r, x) ==
    r.energy_skill = x \/ r.skills[1] = x \/ r.skills[2] = x

\* C17 (skill-type last-write-wins): the skill-type map holds exactly the
\* skill ids some record references, each with the role given by the last
\* record in array order that references it.
C17_LastWriteWins ==
    Derived
        => LET rows == last.src.data.depot
               xs   == DOMAIN db[1].skill_type_map
                         \cup { rows[i].energy_skill : i \in DOMAIN rows }
                         \cup { rows[i].skills[1] : i \in DOMAIN rows }
                         \cup { rows[i].skills[2] : i \in DOMAIN rows }
           IN  \A x \in xs :
                 LET refs == { i \in DOMAIN rows : References(rows[i], x) }
                 IN  /\ x \in DOMAIN db[1].skill_type_map <=> refs # {}
                     /\ \A i \in refs :
                          (\A j \in refs : j <= i)
                              => db[1].skill_type_map[x] = RoleIn(rows[i], x)

\* Two records reference one skill id in different roles and the map holds
\* the role of the second.
C17_Witness ==
    /\ Derived
    /\ Len(last.src.data.depot) = 2
    /\ \E x \in DOMAIN db[1].skill_type_map :
         /\ References(last.src.data.depot[1], x)
         /\ References(last.src.data.depot[2], x)
         /\ RoleIn(last.src.data.depot[1], x) # RoleIn(last.src.data.depot[2], x)
         /\ db[1].skill_type_map[x] = RoleIn(last.src.data.depot[2], x)

\* map holds exactly the rows that resolve, each key with the value of its
\* last resolving row.
KeepsResolving(map, rows, Key(_), Res(_), Val(_)) ==
    /\ DOMAIN map = { Key(rows[i]) : i \in { j \in DOMAIN rows : Res(rows[j]) } }
    /\ \A i \in DOMAIN rows :
         LastResolving(rows, i, Key, Res) => map[Key(rows[i])] = Val(rows[i])

\* Every skills list of the source's skill-depot table has two entries.
SkillsWellFormed(source) ==
    \A i \in DOMAIN source.data.depot : Len(source.data.depot[i].skills) >= 2

\* C20 (per-entry drop isolation): when no fetch fails, the update succeeds
\* and each derived map omits the rows that do not resolve (name hash not in
\* the text lookup, property string not in the table, equip type not
\* recognized, set id not in the set-name map, display type not the
\* artifact-set marker) and holds every row that resolves with its value.
C20_DropIsolation ==
    (/\ last.op = "update"
     /\ last.outcome # "pending"
     /\ last.src.latest # None
     /\ ~FetchFailed(last)
     /\ SkillsWellFormed(last.src))
        => /\ last.outcome = "ok"
           /\ db # None
           /\ LET d        == last.src.data
                  Id(r)    == r.id
                  Param(r) == r.param
                  Named(r) == r.name_text_map_hash \in DOMAIN d.text
                  Name(r)  == d.text[r.name_text_map_hash]
                  IsSet(r) == r.display_type = "RELIQUARY_ITEM" /\ Named(r)
                  Prop(r)  == r.prop_type \in DOMAIN PropertyTable
                  PropOf(r) == PropertyTable[r.prop_type]
                  AffixOf(r) ==
                      [ property |-> PropertyTable[r.prop_type],
                        value    |-> IF ~is_percentage(PropertyTable[r.prop_type])
                                     THEN r.prop_value
                                     ELSE IF r.prop_value * 100 > F64Max THEN PosInf
                                     ELSE r.prop_value * 100 ]
                  Joins(r) == r.set_id \in DOMAIN db[1].set_map
                                /\ r.equip_type \in RecognizedEquip
                  ArtifactOf(r) ==
                      [ set    |-> db[1].set_map[r.set_id],
                        slot   |-> from_game_data_name(r.equip_type)[1],
                        rarity |-> r.rank_level ]
                  WeaponOf(r) == [ name |-> Name(r), rarity |-> r.rank_level ]
              IN  /\ KeepsResolving(db[1].set_map, d.display, Param, IsSet, Name)
                  /\ KeepsResolving(db[1].artifact_map, d.reliq, Id, Joins, ArtifactOf)
                  /\ KeepsResolving(db[1].property_map, d.mainprop, Id, Prop, PropOf)
                  /\ KeepsResolving(db[1].affix_map, d.affix, Id, Prop, AffixOf)
                  /\ KeepsResolving(db[1].weapon_map, d.weapon, Id, Named, WeaponOf)
                  /\ KeepsResolving(db[1].material_map, d.material, Id, Named, Name)
                  /\ KeepsResolving(db[1].character_map, d.avatar, Id, Named, Name)

\* An avatar table with a row whose name does not resolve and a row whose
\* name does: the update succeeded and the map holds the second only.
C20_Witness ==
    /\ Derived
    /\ Len(last.src.data.avatar) = 2
    /\ last.src.data.avatar[1].name_text_map_hash \notin DOMAIN last.src.data.text
    /\ last.src.data.avatar[2].name_text_map_hash \in DOMAIN last.src.data.text
    /\ last.src.data.avatar[1].id # last.src.data.avatar[2].id
    /\ DOMAIN db[1].character_map = { last.src.data.avatar[2].id }

\* The fields of a snapshot that are neither the revision nor the version.
MapFields(d) == DOMAIN d \ { "version", "git_hash" }

\* The map field a get_* lookup reads.
FieldOf(kind) == kind \o "_map"

\* C18 as stated (snapshot shape): every snapshot update installs is the
\* aggregate of nine derived maps plus the revision and the version.
C18_NineMaps ==
    Derived => Cardinality(MapFields(db[1])) = 9

\* C18 (snapshot shape, amended): every snapshot update installs or persists
\* is the aggregate of eight derived maps, one per get_* lookup, plus the
\* revision identifier and the schema-version integer; the text lookup table
\* is not part of it.
C18_EightMaps ==
    Derived
        => /\ { "version", "git_hash" } \subseteq DOMAIN db[1]
           /\ MapFields(db[1]) = { FieldOf(kind) : kind \in Kinds }
           /\ Cardinality(MapFields(db[1])) = 8
           /\ Cardinality(Kinds) = 8
           /\ "text_map" \notin DOMAIN db[1]
           /\ db[1].version \in Nat
           /\ db[1].git_hash \in Revisions
           /\ last.write = "ok"
                => /\ file.kind = "doc"
                   /\ DOMAIN file.body[1] = DOMAIN db[1]
                   /\ file.body[1].version = db[1].version
                   /\ file.body[1].git_hash = db[1].git_hash

\* An update of a source with a text table installed and persisted a snapshot.
C18_Witness ==
    /\ Derived
    /\ last.write = "ok"
    /\ file.kind = "doc"
    /\ DOMAIN last.src.data.text # {}
    /\ db[1].character_map # EmptyMap

\* In the fetches fs the text table comes before the tables resolved through
\* it, and the display table before the reliquary table.
OrderOk(fs) ==
    \A k \in DOMAIN fs :
      /\ fs[k][2] \in { PathDisplayItem, PathReliquary, PathWeapon, PathMaterial, PathAvatar }
           => \E j \in 1..(k - 1) : fs[j][2] = PathTextMap /\ fs[j][1] = fs[k][1]
      /\ fs[k][2] = PathReliquary
           => \E j \in 1..(k - 1) : fs[j][2] = PathDisplayItem /\ fs[j][1] = fs[k][1]

\* artifact_map is the join of the reliquary rows of data with set_map.
JoinedWith(artifact_map, data, set_map) ==
    LET Id(r)    == r.id
        Joins(r) == r.set_id \in DOMAIN set_map /\ r.equip_type \in RecognizedEquip
        ArtifactOf(r) ==
            [ set    |-> set_map[r.set_id],
              slot   |-> from_game_data_name(r.equip_type)[1],
              rarity |-> r.rank_level ]
    IN  KeepsResolving(artifact_map, data.reliq, Id, Joins, ArtifactOf)

\* set_map is the set-name map of data.
SetMapOf(set_map, data) ==
    LET Param(r) == r.param
        IsSet(r) == r.display_type = "RELIQUARY_ITEM"
                      /\ r.name_text_map_hash \in DOMAIN data.text
        Name(r)  == data.text[r.name_text_map_hash]
    IN  KeepsResolving(set_map, data.display, Param, IsSet, Name)

\* C19 (dependency order): in every update past the revision check the text
\* table is fetched before the display, reliquary, weapon, material and
\* avatar tables and the display table before the reliquary table; once the
\* artifact map is derived it is the join with the whole set-name map of the
\* same update, not with the installed snapshot's.
C19_DependencyOrder ==
    /\ last.op = "update" => OrderOk(last.fetches)
    /\ pc = "fetch"
         => /\ OrderOk(upd[1].fetches)
            /\ upd[1].step > 3 => SetMapOf(upd[1].db.set_map, upd[1].src.data)
            /\ upd[1].step > 4
                 => JoinedWith(upd[1].db.artifact_map, upd[1].src.data,
                               upd[1].db.set_map)
    /\ Derived
         => /\ SetMapOf(db[1].set_map, last.src.data)
            /\ JoinedWith(db[1].artifact_map, last.src.data, db[1].set_map)

\* An update in flight over an installed snapshot has derived its artifact
\* map, and the join with the installed set-name map would have given
\* another map.
C19_Witness ==
    /\ pc = "fetch"
    /\ upd[1].step > 4
    /\ db # None
    /\ upd[1].db.artifact_map # EmptyMap
    /\ db[1].set_map # upd[1].db.set_map
    /\ ~JoinedWith(upd[1].db.artifact_map, upd[1].src.data, db[1].set_map)

\* Display row r marks an artifact set and its name is in the text table text.
MarksSet(r, text) ==
    r.display_type = "RELIQUARY_ITEM" /\ r.name_text_map_hash \in DOMAIN text

\* C21 (set-name map derivation): after a successful update a set id is a key
\* of the set-name map exactly when some display row with that param has the
\* display type RELIQUARY_ITEM and a name hash in the text table; the value
\* is the text of the last such row, and a param that only rows of another
\* display type carry is not a key even when their names resolve.
C21_SetMapDerivation ==
    Derived
        => LET rows == last.src.data.display
               text == last.src.data.text
               keys == DOMAIN db[1].set_map \cup { rows[i].param : i \in DOMAIN rows }
           IN  \A p \in keys :
                 LET marked == { i \in DOMAIN rows :
                                   rows[i].param = p /\ MarksSet(rows[i], text) }
                 IN  /\ p \in DOMAIN db[1].set_map <=> marked # {}
                     /\ \A i \in marked :
                          (\A j \in marked : j <= i)
                              => db[1].set_map[p] = text[rows[i].name_text_map_hash]

\* A display table with a weapon row and a set row, both with names in the
\* text table and with different params: only the set row's param is a key.
C21_Witness ==
    /\ Derived
    /\ Len(last.src.data.display) = 2
    /\ \E i, j \in {1, 2} :
         LET a == last.src.data.display[i]
             b == last.src.data.display[j]
         IN  /\ a.display_type = "WEAPON_ITEM"
             /\ a.name_text_map_hash \in DOMAIN last.src.data.text
             /\ MarksSet(b, last.src.data.text)
             /\ a.param # b.param
             /\ DOMAIN db[1].set_map = { b.param }
             /\ db[1].set_map[b.param] = last.src.data.text[b.name_text_map_hash]

\* C22 (revision-query failure in update): an update whose source fails the
\* latest-revision query returns an error after that one query, issues no
\* table fetch, starts no derivation and leaves the snapshot, or its
\* absence, as it was before the call.
C22_HashQueryFailure ==
    (last.op = "update" /\ get_latest_hash(last.src) = None)
        => /\ last.outcome = "err"
           /\ last.queries = 1
           /\ last.fetches = <<>>
           /\ last.write = "none"
           /\ pc = "idle"
           /\ db = last.before

\* The revision query failed for a store that holds a snapshot.
C22_Witness ==
    /\ last.op = "update"
    /\ get_latest_hash(last.src) = None
    /\ last.outcome = "err"
    /\ db # None
    /\ db[1].character_map # EmptyMap

\* The revision query failed for a store without a snapshot.
C22_WitnessEmpty ==
    /\ last.op = "update"
    /\ get_latest_hash(last.src) = None
    /\ db = None

\* Text tables a second source may serve in place of the first one's.
AltTexts ==
    { DataSets[i].text : i \in DOMAIN DataSets }
        \cup { EmptyData.text, (1 :> "x1" @@ 2 :> "x2" @@ 3 :> "x3") }

\* The source that agrees with source on the revision and on every table
\* except the text table, which is text.
WithText(source, text) == [ source EXCEPT !.data.text = text ]

\* C23 (independence from the text lookup): the skill-type, property and
\* affix maps of the snapshot an update installed are the ones an update
\* against any source with the same revision and the same tables except the
\* text table yields.
C23_TextIndependence ==
    Derived
        => \A text \in AltTexts :
             LET other == WithText(last.src, text)
                 rev   == get_latest_hash(other)[1]
             IN  /\ rev = db[1].git_hash
                 /\ fetch_skill_type_map(other, rev) = Ok(db[1].skill_type_map)
                 /\ fetch_property_map(other, rev) = Ok(db[1].property_map)
                 /\ fetch_affix_map(other, rev) = Ok(db[1].affix_map)

\* A snapshot with skill types, properties and affixes was installed, and a
\* source differing in the text table alone yields another set-name map.
C23_Witness ==
    /\ Derived
    /\ db[1].skill_type_map # EmptyMap
    /\ db[1].property_map # EmptyMap
    /\ db[1].affix_map # EmptyMap
    /\ \E text \in AltTexts :
         LET other == WithText(last.src, text)
         IN  /\ text # last.src.data.text
             /\ fetch_set_map(other, db[1].git_hash,
                              fetch_text_map(other, db[1].git_hash).val[1])
                  # Ok(db[1].set_map)

\* The fetches fs are at most nine, no path among them twice.
NoRepeatedFetch(fs) ==
    /\ Len(fs) <= Len(FetchOrder)
    /\ \A j, k \in DOMAIN fs : j # k => fs[j][2] # fs[k][2]

\* No fetch of l follows one that failed.
StopsAtFailure(l) ==
    \A k \in DOMAIN l.fetches :
      l.src.bad = Some(l.fetches[k][2]) => k = Len(l.fetches)

\* C24 (two end states): every update ends, after at most one revision query
\* and at most nine table fetches (no path twice, none after a failing one),
\* either with success and a complete snapshot of the source's revision
\* installed, or with an error and the old snapshot installed; there is no
\* third way for it to end.
C24_TwoEndStates ==
    /\ last.op = "update"
         => /\ last.queries <= 1
            /\ NoRepeatedFetch(last.fetches)
            /\ StopsAtFailure(last)
    /\ pc = "fetch" => NoRepeatedFetch(upd[1].fetches)
    /\ (last.op = "update" /\ last.outcome # "pending")
         => \/ /\ last.outcome = "ok"
               /\ db # None
               /\ db[1].git_hash = last.src.latest[1]
               /\ last.fetches # <<>> => Len(last.fetches) = Len(FetchOrder)
            \/ /\ last.outcome = "err"
               /\ db = last.before

\* C24 without the outcome the claim leaves out: an update ends in success,
\* in an error or by unwinding from a panic, in each case within the claimed
\* number of queries and fetches and with a whole snapshot installed.
C24_EndStatesWithPanic ==
    /\ last.op = "update"
         => /\ last.queries <= 1
            /\ NoRepeatedFetch(last.fetches)
            /\ StopsAtFailure(last)
    /\ pc = "fetch" => NoRepeatedFetch(upd[1].fetches)
    /\ (last.op = "update" /\ last.outcome # "pending")
         => \/ /\ last.outcome = "ok"
               /\ db # None
               /\ db[1].git_hash = last.src.latest[1]
               /\ last.fetches # <<>> => Len(last.fetches) = Len(FetchOrder)
            \/ /\ last.outcome \in { "err", "panic" }
               /\ db = last.before

\* Every fetch of fs was issued for revision rev.
AllAt(fs, rev) == \A k \in DOMAIN fs : fs[k][1] = rev

\* C25 (single-revision consistency): the table fetches of an update are all
\* issued for the revision its own revision query returned; the snapshot it
\* builds and installs records that revision as git_hash and version 0; and
\* a snapshot in the store that was built by update, installed or loaded
\* back from the file update wrote, has version 0.
C25_SingleRevision ==
    /\ (last.op = "update" /\ last.fetches # <<>>)
         => /\ get_latest_hash(last.src) # None
            /\ AllAt(last.fetches, get_latest_hash(last.src)[1])
    /\ pc = "fetch"
         => /\ get_latest_hash(upd[1].src) = Some(upd[1].rev)
            /\ AllAt(upd[1].fetches, upd[1].rev)
            /\ upd[1].db.git_hash = upd[1].rev
            /\ upd[1].db.version = 0
    /\ Derived
         => /\ db[1].git_hash = get_latest_hash(last.src)[1]
            /\ db[1].version = 0
    /\ saved # None => saved[1].version = 0
    /\ (db # None /\ to_json(db[1]) # ForeignDoc) => db[1].version = 0

\* An update replaced a snapshot that update had built for another revision,
\* with all nine fetches issued.
C25_Witness ==
    /\ Derived
    /\ Len(last.fetches) = Len(FetchOrder)
    /\ last.before # None
    /\ last.before[1].version = 0
    /\ last.before[1].git_hash # db[1].git_hash

\* A snapshot built by update was loaded back from the cache file.
C25_WitnessLoaded ==
    /\ last.op = "new_with_cache"
    /\ db # None
    /\ db = saved
    /\ db[1].version = 0

\* C26 (cache file frame condition): a step changes the cache file only when
\* it is the end of an update that made all nine fetches and installs a new
\* snapshot in a store with a cache path; needs_update, has_data, get_*, an
\* update that fails and an update that finds the revision unchanged leave
\* the file as it is.
C26_CacheFileFrame ==
    [][ /\ file' # file
             => /\ pc = "fetch"
                /\ pc' = "idle"
                /\ cache_path # None
                /\ last'.op = "update"
                /\ last'.outcome = "ok"
                /\ Len(last'.fetches) = Len(FetchOrder)
                /\ last'.write \in { "ok", "write_failed" }
                /\ db' # None
                /\ db'[1].git_hash = get_latest_hash(last'.src)[1]
        /\ (\/ last'.op \in { "needs_update", "has_data", "get" }
            \/ /\ last'.op = "update"
               /\ \/ last'.outcome = "err"
                  \/ last'.fetches = <<>>)
             => file' = file
      ]_vars

\* A snapshot persisted by an earlier update is still the file's document
\* after an update that failed at a table fetch.
C26_Witness ==
    /\ last.op = "update"
    /\ last.outcome = "err"
    /\ last.fetches # <<>>
    /\ cache_path # None
    /\ saved # None
    /\ file = FileDoc(to_json(saved[1]))
    /\ from_json(file.body[1]) = saved

\* C27 (has_data monotonicity): a store from new() holds no snapshot and
\* has_data answers whether a snapshot is loaded; once a snapshot is loaded,
\* every step of update (successful, unchanged, failed), needs_update,
\* has_data and get_* on that store leaves one loaded.
C27_HasDataMonotone ==
    [][ /\ last.op = "new" => (db = None /\ ~has_data(db))
        /\ last'.op = "new" => (db' = None /\ ~has_data(db'))
        /\ last'.op = "has_data"
             => /\ last'.value = Some(db' # None)
                /\ last'.value = Some(has_data(db'))
        /\ (db # None /\ last'.op \notin { "new", "new_with_cache" })
             => (db' # None /\ has_data(db'))
      ]_vars

\* has_data answered true on a store that holds a snapshot update installed.
C27_Witness ==
    /\ last.op = "has_data"
    /\ last.value = Some(TRUE)
    /\ db # None
    /\ db[1].version = DATABASE_VERSION
    /\ db[1].git_hash \in Revisions
    /\ db[1].skill_type_map # EmptyMap

\* A failed update left the loaded snapshot in place.
C27_WitnessFailedUpdate ==
    /\ last.op = "update"
    /\ last.outcome = "err"
    /\ db # None
    /\ has_data(db)

====
